---- MODULE Spec2Model ----
(***************************************************************************)
(* Kosher - language environment manager.                                  *)
(*                                                                         *)
(* The model follows src/src/kosher_cli/ctr/container.py (the base class   *)
(* EnvironmentManager) and the per-language managers ctr/python.py,        *)
(* kosher_cli/ctr/node.py and kosher_cli/ctr/ruby.py.  The program's state *)
(* is the world it acts on: the archive directory, the container engine's  *)
(* image cache and container set, the manifest files of the working        *)
(* directory; and the position of the one command in progress.  One action *)
(* is one statement group of a method, cut where an engine call or a file  *)
(* operation can fail.                                                     *)
(*                                                                         *)
(* File names are kept as the sequence of their hyphen-delimited segments  *)
(* (what str.split('-') returns), so "python-a-b-3.10" is                  *)
(* <<"python","a","b","3.10">> and a name is the sequence of its segments. *)
(***************************************************************************)
EXTENDS Naturals, Sequences, FiniteSets

VARIABLES
    archives,    \* base_dir: file stem -> [image, complete]
    images,      \* the engine's local image cache: set of image names
    containers,  \* the engine's containers: set of [id, image]
    manifests,   \* working directory: manifest path -> manifest lines
    pc,          \* position of the command in progress
    op,          \* the command in progress and its local variables
    ret,         \* what the command returned or raised
    fault,       \* the environment fault met by the command, if any
    calls,       \* the engine calls issued by the command, in order
    pre,         \* the world as the command began, and the identity the
                 \* previous command created, if it was a successful create
    created,     \* identities created successfully and not deleted since
    listed,      \* the result of list_environments
    opCount      \* number of commands issued so far

vars == <<archives, images, containers, manifests, pc, op, ret, fault, calls,
          pre, created, listed, opCount>>

world == <<archives, images, containers, manifests>>

(***************************************************************************)
(* Bounds of the model.                                                    *)
(***************************************************************************)
MaxOps == 3

(***************************************************************************)
(* Inputs.                                                                 *)
(***************************************************************************)
\* the managers of the registry, and the ones the commands are drawn from
\* (the three are alike but for the manifest; the archive names and image
\* names of one language never match the patterns of another)
Langs == {"python", "node", "ruby"}
CommandLangs == {"python", "node"}
\* a language the registry does not have, and the commands it is given to
UnsupportedLangs == {"go"}
ManagedCommands == {"create", "activate", "delete"}

NoName == <<>>
NoVersion == ""
NoLang == ""
NoReq == <<>>
\* no probe was made: a value outside the exit statuses 0..255
NoExitCode == 256

Names == {<<"a">>, <<"a", "b">>}
Versions == {"3.10", "3.11"}
\* paths are sequences of components; the files that exist on disk
ExistingFiles == {<<"cfg", "deps.txt">>, <<"package.json">>}
ReqPaths == {NoReq, <<"cfg", "deps.txt">>, <<"missing.txt">>}

\* the inputs _generate_dockerfile is tried on by itself
ManifestVersions == {"3.10", "3.11", "3.12", "20", "22", "3.3"}
ManifestReqPaths == ReqPaths \cup {<<"package.json">>}

image_prefix == "kosher"
container_dir == "/app"

\* the directories that exist on disk, and the paths given to run and build
ExistingDirs == {<<"src">>}
SourceDirs == {<<"src">>, <<"nosrc">>}
\* --source_dir with --output_dir: "./dist" when the option is not given
BuildDirs ==
    {[source_dir |-> <<"src">>, output_dir |-> <<"dist">>],
     [source_dir |-> <<"src">>, output_dir |-> <<"src", "dist">>],
     [source_dir |-> <<"nosrc">>, output_dir |-> <<"dist">>]}
CodePaths == {<<"src", "main">>}

Identity(lang, name, version) == [lang |-> lang, name |-> name, version |-> version]
NoIdentity == Identity(NoLang, NoName, NoVersion)

\* the identities the file naming is tried on by itself: versions are
\* sequences of hyphen segments here; and stems of *.tar files that no
\* create wrote
NamingNames == {<<"a">>, <<"a", "b">>, <<"a", "3.13">>}
NamingVersions == {<<"3.10">>, <<"rc">>, <<"3.13", "rc">>}
NamingIdentities ==
    {Identity(l, n, v) : l \in Langs, n \in NamingNames, v \in NamingVersions}
StrayStems == {<<"backup">>, <<"python", "a">>}

(***************************************************************************)
(* Naming.                                                                 *)
(***************************************************************************)
\* f"{self._lang}-{name}-{version}.tar", as its segments
GetImagePath(lang, name, version) == <<lang>> \o name \o <<version>>

\* the same file name for a version given as its own hyphen segments, as
\* "3.13-rc" is <<"3.13", "rc">>
ArchiveStem(lang, name, version) == <<lang>> \o name \o version

\* f"{self.image_prefix}/{self._lang}-{name}:{version}"
ImageName(lang, name, version) ==
    [prefix |-> image_prefix, repo |-> <<lang>> \o name, tag |-> version]

\* Path(f"{self._lang}-{name}.Dockerfile")
DockerfilePath(lang, name) == <<lang>> \o name

\* file.stem.split('-') and the three parts list_environments reads
ParseLang(stem) == stem[1]
ParseVersion(stem) == stem[Len(stem)]
\* the variant name = parts[1]: only the first segment after the language
ParseNameFirstSegment(stem) == <<stem[2]>>
ParseName(stem) == SubSeq(stem, 2, Len(stem) - 1)

\* self._base_dir.glob(f"{lang}-{name}-*.tar"): the stems that start with
\* "{lang}-{name}-"
IsPrefix(p, s) == Len(p) <= Len(s) /\ SubSeq(s, 1, Len(p)) = p
Glob(dir, lang, name) ==
    {s \in DOMAIN dir : Len(s) > Len(name) + 1 /\ IsPrefix(<<lang>> \o name, s)}

Range(s) == {s[i] : i \in DOMAIN s}

\* os.path.exists / os.path.basename
PathExists(path) == path \in ExistingFiles
Basename(path) == <<path[Len(path)]>>

(***************************************************************************)
(* _generate_dockerfile, one per language.  A line is the tuple of its     *)
(* parts.  The result is the list of lines, or the exception raised.       *)
(***************************************************************************)
BaseLines(lang, version) ==
    CASE lang = "python" ->
           << <<"FROM", "python", version, "alpine">>,
              <<"WORKDIR", container_dir>>,
              <<"RUN", "pip install --upgrade pip">> >>
      [] lang = "node" ->
           << <<"FROM", "node", version, "slim">>,
              <<"WORKDIR", container_dir>>,
              <<"RUN", "npm install -g npm@latest">> >>
      [] OTHER ->
           << <<"FROM", "ruby", version, "slim">>,
              <<"WORKDIR", container_dir>>,
              <<"RUN", "apt-get update && apt-get install -y build-essential libpq-dev">>,
              <<"RUN", "gem install bundler">> >>

\* the variant whose extension of the list lacks the COPY line
InstallLinesWithoutCopy(lang, requirements) ==
    CASE lang = "python" -> << <<"RUN", "pip install -r requirements.txt">> >>
      [] lang = "node" -> << <<"RUN", "npm install">> >>
      [] OTHER -> << <<"RUN", "bundle install">> >>

InstallLines(lang, requirements) ==
    CASE lang = "python" ->
           << <<"COPY">> \o requirements \o <<".">>,
              <<"RUN", "pip install -r requirements.txt">> >>
      [] lang = "node" ->
           << <<"COPY">> \o Basename(requirements) \o <<".">>,
              <<"RUN", "npm install">>,
              <<"ENV", "PATH=$PATH:./node_modules/.bin">> >>
      [] OTHER ->
           << <<"COPY">> \o requirements \o <<"./Gemfile">>,
              <<"RUN", "bundle install">> >>

\* _generate_dockerfile without the os.path.exists test of line 80
GenerateDockerfileUnchecked(lang, version, requirements) ==
    [raises |-> "none",
     content |-> BaseLines(lang, version) \o
                 (IF requirements # NoReq THEN InstallLines(lang, requirements)
                                          ELSE <<>>)]

GenerateDockerfile(lang, version, requirements) ==
    IF requirements # NoReq /\ ~PathExists(requirements)
    THEN [raises |-> "FileNotFoundError", content |-> <<>>]
    ELSE [raises |-> "none",
          content |-> BaseLines(lang, version) \o
                      (IF requirements # NoReq
                       THEN InstallLines(lang, requirements) ELSE <<>>)]

(***************************************************************************)
(* The start of a command: one invocation of the tool performs one         *)
(* operation.  The world as it was is remembered for the frame conditions. *)
(***************************************************************************)
Idle == pc \in {"idle", "done"}

Begin(cmd, lang, name, version, arg, output_dir) ==
    /\ Idle
    /\ opCount < MaxOps
    /\ opCount' = opCount + 1
    /\ op' = [cmd |-> cmd, lang |-> lang, name |-> name, version |-> version,
              arg |-> arg, file |-> <<>>,
              image |-> ImageName(lang, name, version),
              persist |-> "none", restore |-> "none", shell |-> "none",
             probe |-> NoExitCode, attached |-> "none",
              output_dir |-> output_dir, built |-> <<>>]
    /\ pre' = [archives |-> archives, images |-> images,
               containers |-> containers, created |-> created,
               last |-> IF op.cmd = "create" /\ ret = "True"
                        THEN Identity(op.lang, op.name, op.version)
                        ELSE NoIdentity]
    /\ calls' = <<>>
    /\ fault' = "none"

\* the command returns or raises `r` with nothing more to run
Return(r) == pc' = "done" /\ ret' = r

(***************************************************************************)
(* create_environment (python.py, node.py, ruby.py: lines 21-69)           *)
(***************************************************************************)
\* lines 29-33: validation, image name and manifest path
CreateEnvironment(lang, name, version, requirements) ==
    /\ Begin("create", lang, name, version, requirements, <<>>)
    /\ listed' = {}
    /\ IF name = NoName \/ version = NoVersion
       THEN Return("ValueError")
       ELSE pc' = "create_check" /\ ret' = "running"
    /\ UNCHANGED <<world, created>>

\* create_environment without the guard of lines 37-42: the lookup is made
\* and its outcome is not used
CreateCheckWithoutGuard ==
    /\ pc = "create_check"
    /\ calls' = Append(calls, "images.get")
    /\ pc' = "create_generate"
    /\ UNCHANGED <<world, op, ret, fault, pre, created, listed, opCount>>

\* lines 37-42: the conflict guard looks the image up in the engine's cache
CreateCheck ==
    /\ pc = "create_check"
    /\ calls' = Append(calls, "images.get")
    /\ IF op.image \in images
       THEN ret' = "False" /\ pc' = "create_finally"
       ELSE pc' = "create_generate" /\ UNCHANGED ret
    /\ UNCHANGED <<world, op, fault, pre, created, listed, opCount>>

\* lines 45-46: generate the manifest and write it to the working directory
CreateGenerate ==
    /\ pc = "create_generate"
    /\ LET d == GenerateDockerfile(op.lang, op.version, op.arg)
           path == DockerfilePath(op.lang, op.name)
       IN IF d.raises # "none"
          THEN /\ ret' = d.raises
               /\ pc' = "create_finally"
               /\ UNCHANGED manifests
          ELSE /\ manifests' = [p \in DOMAIN manifests \cup {path} |->
                                  IF p = path THEN d.content ELSE manifests[p]]
               /\ pc' = "create_build"
               /\ UNCHANGED ret
    /\ UNCHANGED <<archives, images, containers, op, fault, calls, pre,
                   created, listed, opCount>>

\* create_environment without the except clause of lines 65-67: the
\* engine's error leaves the method through the finally block uncaught
CreateBuildUncaught ==
    /\ pc = "create_build"
    /\ calls' = Append(calls, "images.build")
    /\ \/ /\ images' = images \cup {op.image}
          /\ pc' = "save_get"
          /\ UNCHANGED <<ret, fault>>
       \/ /\ fault' = "engine"
          /\ ret' = "DockerException"
          /\ pc' = "create_finally"
          /\ UNCHANGED images
    /\ UNCHANGED <<archives, containers, manifests, op, pre, created, listed,
                   opCount>>

\* lines 50-55: the engine builds and tags the image, or fails (line 65)
CreateBuild ==
    /\ pc = "create_build"
    /\ calls' = Append(calls, "images.build")
    /\ \/ /\ images' = images \cup {op.image}
          /\ pc' = "save_get"
          /\ UNCHANGED <<ret, fault>>
       \/ /\ fault' = "engine"
          /\ ret' = "False"
          /\ pc' = "create_finally"
          /\ UNCHANGED images
    /\ UNCHANGED <<archives, containers, manifests, op, pre, created, listed,
                   opCount>>

(***************************************************************************)
(* _save_image (container.py lines 32-44), called from create line 58      *)
(***************************************************************************)
\* line 36: look the built image up; a DockerException returns False
SaveImageGet ==
    /\ pc = "save_get"
    /\ calls' = Append(calls, "images.get")
    /\ \/ /\ op.image \in images
          /\ pc' = "save_open"
          /\ UNCHANGED <<op, ret, fault>>
       \/ /\ op.image \notin images
          /\ op' = [op EXCEPT !.persist = "failed"]
          /\ ret' = "False"
          /\ pc' = "create_finally"
          /\ UNCHANGED fault
       \/ /\ fault' = "engine"
          /\ op' = [op EXCEPT !.persist = "failed"]
          /\ ret' = "False"
          /\ pc' = "create_finally"
    /\ UNCHANGED <<world, pre, created, listed, opCount>>

\* line 37: open(image_path, 'wb') creates the file or truncates the one
\* that is there; an OSError is not caught by _save_image nor by create
SaveImageOpen ==
    /\ pc = "save_open"
    /\ LET path == GetImagePath(op.lang, op.name, op.version)
       IN \/ /\ archives' = [s \in DOMAIN archives \cup {path} |->
                               IF s = path
                               THEN [image |-> op.image, complete |-> FALSE]
                               ELSE archives[s]]
             /\ pc' = "save_write"
             /\ UNCHANGED <<op, ret, fault>>
          \/ /\ fault' = "io"
             /\ op' = [op EXCEPT !.persist = "failed"]
             /\ ret' = "OSError"
             /\ pc' = "create_finally"
             /\ UNCHANGED archives
    /\ UNCHANGED <<images, containers, manifests, calls, pre, created, listed,
                   opCount>>

\* lines 38-44: stream the export into the file
SaveImageWrite ==
    /\ pc = "save_write"
    /\ calls' = Append(calls, "image.save")
    /\ LET path == GetImagePath(op.lang, op.name, op.version)
       IN \/ /\ archives' = [archives EXCEPT ![path].complete = TRUE]
             /\ op' = [op EXCEPT !.persist = "ok"]
             /\ ret' = "True"
             /\ UNCHANGED fault
          \/ /\ fault' = "engine"
             /\ op' = [op EXCEPT !.persist = "failed"]
             /\ ret' = "False"
             /\ UNCHANGED archives
          \/ /\ fault' = "io"
             /\ op' = [op EXCEPT !.persist = "failed"]
             /\ ret' = "OSError"
             /\ UNCHANGED archives
    /\ pc' = "create_finally"
    /\ UNCHANGED <<images, containers, manifests, pre, created, listed, opCount>>

\* create with the unlink at the end of the try body instead of a finally
\* block: the manifest is removed on the successful path only
CreateFinallyOnSuccess ==
    /\ pc = "create_finally"
    /\ manifests' = IF ret = "True"
                    THEN [p \in DOMAIN manifests \ {DockerfilePath(op.lang, op.name)}
                            |-> manifests[p]]
                    ELSE manifests
    /\ created' = IF ret = "True"
                  THEN created \cup {Identity(op.lang, op.name, op.version)}
                  ELSE created
    /\ pc' = "done"
    /\ UNCHANGED <<archives, images, containers, op, ret, fault, calls, pre,
                   listed, opCount>>

\* lines 68-69: finally: dockerfile_path.unlink(missing_ok=True)
CreateFinally ==
    /\ pc = "create_finally"
    /\ manifests' = [p \in DOMAIN manifests \ {DockerfilePath(op.lang, op.name)}
                       |-> manifests[p]]
    /\ created' = IF ret = "True"
                  THEN created \cup {Identity(op.lang, op.name, op.version)}
                  ELSE created
    /\ pc' = "done"
    /\ UNCHANGED <<archives, images, containers, op, ret, fault, calls, pre,
                   listed, opCount>>

(***************************************************************************)
(* activate_environment (container.py lines 84-152)                        *)
(***************************************************************************)
\* lines 86-99: validation, then resolve the archive by glob; env_files[0]
\* is whichever match the directory scan yields first.  The first definition
\* is activate_environment without the two tests of lines 86-89.
ActivateEnvironmentUnchecked(name, lang) ==
    /\ Begin("activate", lang, name, NoVersion, <<>>, <<>>)
    /\ listed' = {}
    /\ UNCHANGED <<world, created>>
    /\ pc' = "activate_resolve" /\ ret' = "running"

ActivateEnvironment(name, lang) ==
    /\ Begin("activate", lang, name, NoVersion, <<>>, <<>>)
    /\ listed' = {}
    /\ UNCHANGED <<world, created>>
    /\ IF name = NoName \/ lang = NoLang
       THEN Return("ValueError")
       ELSE pc' = "activate_resolve" /\ ret' = "running"

ActivateResolve ==
    /\ pc = "activate_resolve"
    /\ LET env_files == Glob(archives, op.lang, op.name)
       IN IF env_files = {}
          THEN Return("False") /\ UNCHANGED op
          ELSE \E f \in env_files :
                 /\ op' = [op EXCEPT !.file = f,
                                     !.version = ParseVersion(f),
                                     !.image = ImageName(op.lang, op.name,
                                                         ParseVersion(f))]
                 /\ pc' = "activate_cache"
                 /\ UNCHANGED ret
    /\ UNCHANGED <<world, fault, calls, pre, created, listed, opCount>>

\* lines 101-108 without the lookup's outcome: the variant that restores
\* from the archive whether or not the image is in the cache
ActivateCacheAlwaysMiss ==
    /\ pc = "activate_cache"
    /\ calls' = Append(calls, "images.get")
    /\ pc' = "activate_load"
    /\ UNCHANGED <<world, op, ret, fault, pre, created, listed, opCount>>

\* lines 101-105: the engine's local cache is looked up first
ActivateCache ==
    /\ pc = "activate_cache"
    /\ calls' = Append(calls, "images.get")
    /\ pc' = IF op.image \in images THEN "activate_run" ELSE "activate_load"
    /\ UNCHANGED <<world, op, ret, fault, pre, created, listed, opCount>>

\* lines 108-111 and _load_image (lines 46-61): restore from the archive;
\* the return at line 111 is outside the try of line 113.  The first
\* definition is the variant without the test of lines 109-111, which goes
\* on to containers.run whatever _load_image returned.
ActivateLoadIgnoringFailure ==
    /\ pc = "activate_load"
    /\ LET path == GetImagePath(op.lang, op.name, op.version)
       IN IF path \notin DOMAIN archives
          THEN /\ op' = [op EXCEPT !.restore = "absent"]
               /\ pc' = "activate_run"
               /\ UNCHANGED <<images, calls, fault, ret>>
          ELSE /\ calls' = Append(calls, "images.load")
               /\ \/ /\ archives[path].complete
                     /\ images' = images \cup {archives[path].image}
                     /\ op' = [op EXCEPT !.restore = "ok"]
                     /\ UNCHANGED fault
                  \/ /\ fault' = IF archives[path].complete THEN "engine"
                                                            ELSE fault
                     /\ op' = [op EXCEPT !.restore = "failed"]
                     /\ UNCHANGED images
               /\ pc' = "activate_run"
               /\ UNCHANGED ret
    /\ UNCHANGED <<archives, containers, manifests, pre, created, listed,
                   opCount>>

\* _load_image without the test of lines 49-51: open() of a missing file
\* raises FileNotFoundError, which nothing catches
ActivateLoadWithoutExistsTest ==
    /\ pc = "activate_load"
    /\ LET path == GetImagePath(op.lang, op.name, op.version)
       IN IF path \notin DOMAIN archives
          THEN /\ op' = [op EXCEPT !.restore = "raised"]
               /\ Return("FileNotFoundError")
               /\ UNCHANGED <<images, calls, fault>>
          ELSE /\ calls' = Append(calls, "images.load")
               /\ \/ /\ archives[path].complete
                     /\ images' = images \cup {archives[path].image}
                     /\ op' = [op EXCEPT !.restore = "ok"]
                     /\ pc' = "activate_run"
                     /\ UNCHANGED <<ret, fault>>
                  \/ /\ fault' = IF archives[path].complete THEN "engine"
                                                            ELSE fault
                     /\ op' = [op EXCEPT !.restore = "failed"]
                     /\ Return("False")
                     /\ UNCHANGED images
    /\ UNCHANGED <<archives, containers, manifests, pre, created, listed,
                   opCount>>

ActivateLoad ==
    /\ pc = "activate_load"
    /\ LET path == GetImagePath(op.lang, op.name, op.version)
       IN IF path \notin DOMAIN archives
          THEN /\ op' = [op EXCEPT !.restore = "absent"]
               /\ Return("False")
               /\ UNCHANGED <<images, calls, fault>>
          ELSE /\ calls' = Append(calls, "images.load")
               /\ \/ /\ archives[path].complete
                     /\ images' = images \cup {archives[path].image}
                     /\ op' = [op EXCEPT !.restore = "ok"]
                     /\ pc' = "activate_run"
                     /\ UNCHANGED <<ret, fault>>
                  \/ /\ fault' = IF archives[path].complete THEN "engine"
                                                            ELSE fault
                     /\ op' = [op EXCEPT !.restore = "failed"]
                     /\ Return("False")
                     /\ UNCHANGED images
    /\ UNCHANGED <<archives, containers, manifests, pre, created, listed,
                   opCount>>

\* lines 116-129: containers.run(image, "tail -f /dev/null", detach=True,
\* remove=True): the container stays up until it is stopped.  An image that
\* is not in the cache is pulled, which fails for a name that exists only
\* locally.  The first definition is the variant that goes on to the probe
\* when containers.run raised.
ActivateRunIgnoringFailure ==
    /\ pc = "activate_run"
    /\ calls' = Append(calls, "containers.run")
    /\ \/ /\ op.image \in images
          /\ containers' = containers \cup
                             {[id |-> Cardinality(containers) + 1,
                               image |-> op.image]}
          /\ UNCHANGED fault
       \/ /\ fault' = "engine"
          /\ UNCHANGED containers
    /\ pc' = "activate_probe"
    /\ UNCHANGED <<archives, images, manifests, op, ret, pre, created, listed,
                   opCount>>

ActivateRun ==
    /\ pc = "activate_run"
    /\ \/ /\ op.image \in images
          /\ calls' = Append(calls, "containers.run")
          /\ containers' = containers \cup
                             {[id |-> Cardinality(containers) + 1,
                               image |-> op.image]}
          /\ pc' = "activate_probe"
          /\ UNCHANGED <<ret, fault>>
       \/ /\ op.image \in images
          /\ calls' = Append(calls, "containers.run")
          /\ fault' = "engine"
          /\ ret' = "False"
          /\ pc' = "activate_finally"
          /\ UNCHANGED containers
       \/ /\ op.image \notin images
          /\ calls' = calls \o <<"containers.run", "images.pull">>
          /\ ret' = "False"
          /\ pc' = "activate_finally"
          /\ UNCHANGED <<containers, fault>>
    /\ UNCHANGED <<archives, images, manifests, op, pre, created, listed, opCount>>

\* lines 131-132 without the test of the exit code: /bin/bash whatever the
\* probe said
ActivateProbeAlwaysBash ==
    /\ pc = "activate_probe"
    /\ calls' = Append(calls, "container.exec_run")
    /\ \/ /\ \E exit_code \in {0, 1} :
                op' = [op EXCEPT !.probe = exit_code, !.shell = "/bin/bash"]
          /\ pc' = "activate_attach"
          /\ UNCHANGED <<ret, fault>>
       \/ /\ fault' = "engine"
          /\ ret' = "False"
          /\ pc' = "activate_finally"
          /\ UNCHANGED op
    /\ UNCHANGED <<world, pre, created, listed, opCount>>

\* lines 131-132: exec_run("test -x /bin/bash"); the shell is /bin/bash when
\* the exit code is 0 and /bin/sh otherwise
ActivateProbe ==
    /\ pc = "activate_probe"
    /\ calls' = Append(calls, "container.exec_run")
    /\ \/ /\ \E exit_code \in {0, 1} :
                op' = [op EXCEPT !.probe = exit_code,
                                 !.shell = IF exit_code = 0 THEN "/bin/bash"
                                                            ELSE "/bin/sh"]
          /\ pc' = "activate_attach"
          /\ UNCHANGED <<ret, fault>>
       \/ /\ fault' = "engine"
          /\ ret' = "False"
          /\ pc' = "activate_finally"
          /\ UNCHANGED op
    /\ UNCHANGED <<world, pre, created, listed, opCount>>

\* lines 137-146: the interactive session ends normally or by an interrupt.
\* The first definition is the method without the except clause of lines
\* 144-146: the interrupt leaves through the finally block uncaught.
ActivateAttachUncaughtInterrupt ==
    /\ pc = "activate_attach"
    /\ calls' = Append(calls, "docker exec")
    /\ \/ ret' = "True" /\ UNCHANGED fault
       \/ ret' = "KeyboardInterrupt" /\ fault' = "interrupt"
    /\ op' = [op EXCEPT !.attached = op.shell]
    /\ pc' = "activate_finally"
    /\ UNCHANGED <<world, pre, created, listed, opCount>>

ActivateAttach ==
    /\ pc = "activate_attach"
    /\ calls' = Append(calls, "docker exec")
    /\ \/ ret' = "True" /\ UNCHANGED fault
       \/ ret' = "False" /\ fault' = "interrupt"
    /\ op' = [op EXCEPT !.attached = op.shell]
    /\ pc' = "activate_finally"
    /\ UNCHANGED <<world, pre, created, listed, opCount>>

\* the engine refuses to remove, without force, an image a container uses
ImageInUse(image) == \E c \in containers : c.image = image

\* the finally block of lines 147-152 with a cleanup that also unlinks the
\* archive file the activation resolved
ActivateFinallyUnlinkingArchive ==
    /\ pc = "activate_finally"
    /\ calls' = Append(calls, "images.remove")
    /\ \/ /\ ~ImageInUse(op.image)
          /\ images' = images \ {op.image}
       \/ UNCHANGED images
    /\ archives' = [s \in DOMAIN archives \ {op.file} |-> archives[s]]
    /\ pc' = "done"
    /\ UNCHANGED <<containers, manifests, op, ret, fault, pre, created, listed,
                   opCount>>

\* the finally block without the `except DockerException: pass` of lines
\* 151-152: a refused removal is raised out of activate_environment
ActivateFinallyUncaught ==
    /\ pc = "activate_finally"
    /\ calls' = Append(calls, "images.remove")
    /\ \/ /\ ~ImageInUse(op.image)
          /\ images' = images \ {op.image}
          /\ UNCHANGED ret
       \/ /\ ret' = "DockerException"
          /\ UNCHANGED images
    /\ pc' = "done"
    /\ UNCHANGED <<archives, containers, manifests, op, fault, pre, created,
                   listed, opCount>>

\* lines 147-152: finally: images.remove(image_name), a DockerException is
\* swallowed.  Nothing stops or removes the container.
ActivateFinally ==
    /\ pc = "activate_finally"
    /\ calls' = Append(calls, "images.remove")
    /\ \/ /\ ~ImageInUse(op.image)
          /\ images' = images \ {op.image}
       \/ UNCHANGED images
    /\ pc' = "done"
    /\ UNCHANGED <<archives, containers, manifests, op, ret, fault, pre,
                   created, listed, opCount>>

(***************************************************************************)
(* delete_environment (container.py lines 180-213)                         *)
(***************************************************************************)
\* lines 182-185: validation
DeleteEnvironment(name, lang) ==
    /\ Begin("delete", lang, name, NoVersion, <<>>, <<>>)
    /\ listed' = {}
    /\ created' = {i \in created : ~(i.lang = lang /\ i.name = name)}
    /\ UNCHANGED world
    /\ IF name = NoName \/ lang = NoLang
       THEN Return("ValueError")
       ELSE pc' = "delete_resolve" /\ ret' = "running"

\* lines 188-195: resolve by glob, read the version off env_files[0]
DeleteResolve ==
    /\ pc = "delete_resolve"
    /\ LET env_files == Glob(archives, op.lang, op.name)
       IN IF env_files = {}
          THEN Return("False") /\ UNCHANGED op
          ELSE \E f \in env_files :
                 /\ op' = [op EXCEPT !.file = f,
                                     !.version = ParseVersion(f),
                                     !.image = ImageName(op.lang, op.name,
                                                         ParseVersion(f))]
                 /\ pc' = "delete_unlink"
                 /\ UNCHANGED ret
    /\ UNCHANGED <<world, fault, calls, pre, created, listed, opCount>>

\* line 199: env_files[0].unlink(); an OSError returns False (line 211)
DeleteUnlink ==
    /\ pc = "delete_unlink"
    /\ \/ /\ archives' = [s \in DOMAIN archives \ {op.file} |-> archives[s]]
          /\ pc' = "delete_remove"
          /\ UNCHANGED <<ret, fault>>
       \/ /\ fault' = "io"
          /\ Return("False")
          /\ UNCHANGED archives
    /\ UNCHANGED <<images, containers, manifests, op, calls, pre, created,
                   listed, opCount>>

\* lines 203-210: images.remove(image=image_name, force=True); the engine
\* raises when the image is not there or on its own failure
DeleteRemove ==
    /\ pc = "delete_remove"
    /\ calls' = Append(calls, "images.remove")
    /\ \/ /\ op.image \in images
          /\ images' = images \ {op.image}
          /\ Return("True")
          /\ UNCHANGED fault
       \/ /\ op.image \notin images
          /\ Return("False")
          /\ UNCHANGED <<images, fault>>
       \/ /\ op.image \in images
          /\ fault' = "engine"
          /\ Return("False")
          /\ UNCHANGED images
    /\ UNCHANGED <<archives, containers, manifests, op, pre, created, listed,
                   opCount>>

(***************************************************************************)
(* run_code and build_source (python.py lines 89-173, node.py lines        *)
(* 94-161, ruby.py lines 90-157)                                           *)
(***************************************************************************)
\* run_code: image name, mounted directory and script name
RunCode(lang, name, version, code_path) ==
    /\ Begin("run", lang, name, version, code_path, <<>>)
    /\ listed' = {}
    /\ pc' = "container_run"
    /\ ret' = "running"
    /\ UNCHANGED <<world, created>>

\* build_source: only the Python manager checks that source_dir exists
BuildSource(lang, name, version, source_dir, output_dir) ==
    /\ Begin("build", lang, name, version, source_dir, output_dir)
    /\ listed' = {}
    /\ IF lang = "python" /\ source_dir \notin ExistingDirs
       THEN Return("False")
       ELSE pc' = "container_run" /\ ret' = "running"
    /\ UNCHANGED <<world, created>>

\* containers.run(image, command, volumes, remove=True, stream=True): not
\* detached, so the call creates and starts the container, waits for it to
\* exit and removes it.  An image that is not in the cache is pulled, which
\* fails for an image that exists only locally.  KeyboardInterrupt is not an
\* Exception: neither handler catches it and the container is left behind.
ContainerRun ==
    /\ pc = "container_run"
    /\ \/ /\ op.image \notin images
          /\ calls' = calls \o <<"containers.run", "images.pull">>
          /\ Return("False")
          /\ UNCHANGED <<containers, fault>>
       \/ /\ op.image \in images
          /\ calls' = Append(calls, "containers.run")
          /\ \/ /\ pc' = "container_logs"
                /\ UNCHANGED <<containers, ret, fault>>
             \/ /\ fault' = "exit"
                /\ Return("False")
                /\ UNCHANGED containers
             \/ /\ fault' = "engine"
                /\ Return("False")
                /\ UNCHANGED containers
             \/ /\ fault' = "interrupt"
                /\ containers' = containers \cup
                                   {[id |-> Cardinality(containers) + 1,
                                     image |-> op.image]}
                /\ Return("KeyboardInterrupt")
    /\ UNCHANGED <<archives, images, manifests, op, pre, created, listed, opCount>>

\* the log lines are printed; the Python build then looks for main under
\* os.path.join(source_dir, "dist"), where pyinstaller's --distpath puts it;
\* op.built is the path of the executable the run left, if it left one
ContainerLogs ==
    /\ pc = "container_logs"
    /\ IF op.cmd = "build" /\ op.lang = "python"
       THEN \E built_executable_exists \in BOOLEAN :
              /\ op' = [op EXCEPT !.built =
                          IF built_executable_exists
                          THEN op.arg \o <<"dist", "main">> ELSE <<>>]
              /\ Return(IF built_executable_exists THEN "True" ELSE "False")
       ELSE Return("True") /\ UNCHANGED op
    /\ UNCHANGED <<world, fault, calls, pre, created, listed, opCount>>

(***************************************************************************)
(* list_environments (container.py lines 154-178)                          *)
(***************************************************************************)
\* the loop of lines 158-174 without the `len(parts) >= 3` test
ListingUnguarded(dir, lang) ==
    {[lang |-> ParseLang(s), name |-> ParseName(s),
      version |-> ParseVersion(s), file |-> s] :
     s \in {t \in DOMAIN dir : lang = NoLang \/ ParseLang(t) = lang}}

\* lines 158-174: one entry per *.tar file whose stem has three parts or
\* more and, with a filter, whose first part is the filter
Listing(dir, lang) ==
    {[lang |-> ParseLang(s), name |-> ParseName(s),
      version |-> ParseVersion(s), file |-> s] :
     s \in {t \in DOMAIN dir :
              /\ Len(t) >= 3
              /\ (lang = NoLang \/ ParseLang(t) = lang)}}

ListEnvironments(manager, lang) ==
    /\ Begin("list", manager, NoName, NoVersion, <<lang>>, <<>>)
    /\ listed' = Listing(archives, lang)
    /\ Return("True")
    /\ UNCHANGED <<world, created>>

(***************************************************************************)
(* ShellPrompt (shell.py lines 66-129)                                     *)
(***************************************************************************)
\* _get_environment_manager: a language outside the registry raises
\* ValueError before any manager is constructed
GetEnvironmentManager(cmd, lang, name) ==
    /\ lang \notin Langs
    /\ Begin(cmd, lang, name, NoVersion, <<>>, <<>>)
    /\ listed' = {}
    /\ Return("ValueError")
    /\ UNCHANGED <<world, created>>

\* execute: the value a manager method returns is dropped; an Exception
\* reaches sys.exit(1); KeyboardInterrupt is not an Exception and ends the
\* interpreter with status 130; otherwise execute returns and the status is 0
ExitCode ==
    CASE ret \in {"ValueError", "FileNotFoundError", "OSError"} -> 1
      [] ret = "KeyboardInterrupt" -> 130
      [] OTHER -> 0

(***************************************************************************)
(* The specification.                                                      *)
(***************************************************************************)
EmptyDir == [s \in {} |-> [image |-> ImageName(NoLang, NoName, NoVersion),
                           complete |-> FALSE]]

Init ==
    /\ archives = EmptyDir
    /\ images = {}
    /\ containers = {}
    /\ manifests = [p \in {} |-> <<>>]
    /\ pc = "idle"
    /\ op = [cmd |-> "none", lang |-> NoLang, name |-> NoName,
             version |-> NoVersion, arg |-> <<>>, file |-> <<>>,
             image |-> ImageName(NoLang, NoName, NoVersion),
             persist |-> "none", restore |-> "none", shell |-> "none",
             probe |-> NoExitCode, attached |-> "none",
             output_dir |-> <<>>, built |-> <<>>]
    /\ ret = "none"
    /\ fault = "none"
    /\ calls = <<>>
    /\ pre = [archives |-> EmptyDir, images |-> {}, containers |-> {},
              created |-> {}, last |-> NoIdentity]
    /\ created = {}
    /\ listed = {}
    /\ opCount = 0

Next ==
    \/ \E lang \in CommandLangs, name \in Names \cup {NoName},
          version \in Versions \cup {NoVersion}, requirements \in ReqPaths :
          CreateEnvironment(lang, name, version, requirements)
    \/ CreateCheck
    \/ CreateGenerate
    \/ CreateBuild
    \/ SaveImageGet
    \/ SaveImageOpen
    \/ SaveImageWrite
    \/ CreateFinally
    \/ \E name \in Names \cup {NoName}, lang \in CommandLangs \cup {NoLang} :
          ActivateEnvironment(name, lang)
    \/ ActivateResolve
    \/ ActivateCache
    \/ ActivateLoad
    \/ ActivateRun
    \/ ActivateProbe
    \/ ActivateAttach
    \/ ActivateFinally
    \/ \E name \in Names \cup {NoName}, lang \in CommandLangs \cup {NoLang} :
          DeleteEnvironment(name, lang)
    \/ DeleteResolve
    \/ DeleteUnlink
    \/ DeleteRemove
    \/ \E lang \in CommandLangs, name \in Names, version \in Versions,
          code_path \in CodePaths :
          RunCode(lang, name, version, code_path)
    \/ \E lang \in CommandLangs, name \in Names, version \in Versions,
          dirs \in BuildDirs :
          BuildSource(lang, name, version, dirs.source_dir, dirs.output_dir)
    \/ ContainerRun
    \/ ContainerLogs
    \/ \E manager \in CommandLangs, lang \in CommandLangs \cup {NoLang} :
          ListEnvironments(manager, lang)
    \/ \E cmd \in ManagedCommands, lang \in UnsupportedLangs, name \in Names :
          GetEnvironmentManager(cmd, lang, name)

Spec == Init /\ [][Next]_vars

\* one step of activate_environment after the argument tests.  Each engine
\* call returns or raises, and the session of line 137 ends or is
\* interrupted: a step that can be taken is taken.
ActivateStep ==
    \/ ActivateResolve
    \/ ActivateCache
    \/ ActivateLoad
    \/ ActivateRun
    \/ ActivateProbe
    \/ ActivateAttach
    \/ ActivateFinally

SpecFair == Init /\ [][Next]_vars /\ WF_vars(ActivateStep)

(***************************************************************************)
(* _generate_dockerfile by itself: any manager of the registry, any        *)
(* version, any dependency-file argument; one call, whose result is kept   *)
(* as the manifest (or as the exception raised).                           *)
(***************************************************************************)
InitManifest ==
    /\ archives = EmptyDir
    /\ images = {}
    /\ containers = {}
    /\ manifests = [p \in {} |-> <<>>]
    /\ pc = "generate"
    /\ \E lang \in Langs, version \in ManifestVersions,
          requirements \in ManifestReqPaths :
          op = [cmd |-> "generate", lang |-> lang, name |-> <<"a">>,
                version |-> version, arg |-> requirements, file |-> <<>>,
                image |-> ImageName(lang, <<"a">>, version),
                persist |-> "none", restore |-> "none", shell |-> "none",
             probe |-> NoExitCode, attached |-> "none",
                output_dir |-> <<>>, built |-> <<>>]
    /\ ret = "running"
    /\ fault = "none"
    /\ calls = <<>>
    /\ pre = [archives |-> EmptyDir, images |-> {}, containers |-> {},
              created |-> {}, last |-> NoIdentity]
    /\ created = {}
    /\ listed = {}
    /\ opCount = 0

GenerateManifest ==
    /\ pc = "generate"
    /\ LET d == GenerateDockerfile(op.lang, op.version, op.arg)
       IN IF d.raises # "none"
          THEN ret' = d.raises /\ UNCHANGED manifests
          ELSE /\ ret' = "True"
               /\ manifests' = [p \in {DockerfilePath(op.lang, op.name)}
                                  |-> d.content]
    /\ pc' = "done"
    /\ UNCHANGED <<archives, images, containers, op, fault, calls, pre,
                   created, listed, opCount>>

NextManifest == GenerateManifest

SpecManifest == InitManifest /\ [][NextManifest]_vars

(***************************************************************************)
(* The archive directory by itself: the archives of one or two identities, *)
(* written under the names _get_image_path gives them, next to *.tar files *)
(* of other origin; the directory is listed, with and without a filter.    *)
(***************************************************************************)
DirectoryOf(ids, strays) ==
    [s \in {ArchiveStem(i.lang, i.name, i.version) : i \in ids} \cup strays
       |-> [image |-> ImageName(NoLang, NoName, NoVersion), complete |-> TRUE]]

InitListing ==
    /\ \E i, j \in NamingIdentities, strays \in SUBSET StrayStems :
          /\ created = {i, j}
          /\ archives = DirectoryOf({i, j}, strays)
          /\ pre = [archives |-> DirectoryOf({i, j}, strays), images |-> {},
                    containers |-> {}, created |-> {i, j},
                    last |-> NoIdentity]
    /\ images = {}
    /\ containers = {}
    /\ manifests = [p \in {} |-> <<>>]
    /\ pc = "idle"
    /\ op = [cmd |-> "none", lang |-> NoLang, name |-> NoName,
             version |-> NoVersion, arg |-> <<>>, file |-> <<>>,
             image |-> ImageName(NoLang, NoName, NoVersion),
             persist |-> "none", restore |-> "none", shell |-> "none",
             probe |-> NoExitCode, attached |-> "none",
             output_dir |-> <<>>, built |-> <<>>]
    /\ ret = "none"
    /\ fault = "none"
    /\ calls = <<>>
    /\ listed = {}
    /\ opCount = 0

NextListing ==
    \E manager \in Langs, lang \in Langs \cup {NoLang} :
       ListEnvironments(manager, lang)

SpecListing == InitListing /\ [][NextListing]_vars

(***************************************************************************)
(* Two create_environment calls in two processes (node.py lines 32-69,     *)
(* python.py lines 29-66, container.py lines 32-44).  Nothing in the code  *)
(* locks the archive directory, the working directory or the engine, so    *)
(* the steps of the two calls interleave freely.  pc, op, ret, fault and   *)
(* calls are functions of the process here; the archive of a file also     *)
(* records which processes opened it for writing (by), and op[p].consumed  *)
(* is the manifest the build of p was given.                               *)
(***************************************************************************)
Procs == {1, 2}

\* what images.build finds at dockerfile_path when the file is not there
NoManifest == <<"no such file">>

InitConcurrent ==
    /\ \E lang \in CommandLangs, name \in Names,
          version \in [Procs -> Versions],
          requirements \in [Procs -> {NoReq, <<"cfg", "deps.txt">>}] :
          op = [p \in Procs |->
                  [cmd |-> "create", lang |-> lang, name |-> name,
                   version |-> version[p], arg |-> requirements[p],
                   image |-> ImageName(lang, name, version[p]),
                   persist |-> "none", consumed |-> <<>>]]
    /\ pc = [p \in Procs |-> "create_check"]
    /\ ret = [p \in Procs |-> "running"]
    /\ fault = [p \in Procs |-> "none"]
    /\ calls = [p \in Procs |-> <<>>]
    /\ archives = << >>
    /\ images = {}
    /\ containers = {}
    /\ manifests = [q \in {} |-> <<>>]
    /\ pre = [archives |-> << >>, images |-> {}, containers |-> {},
              created |-> {}, last |-> NoIdentity]
    /\ created = {}
    /\ listed = {}
    /\ opCount = 0

\* lines 37-42: the conflict guard
ConcurrentCreateCheck(p) ==
    /\ pc[p] = "create_check"
    /\ calls' = [calls EXCEPT ![p] = Append(@, "images.get")]
    /\ IF op[p].image \in images
       THEN /\ ret' = [ret EXCEPT ![p] = "False"]
            /\ pc' = [pc EXCEPT ![p] = "create_finally"]
       ELSE /\ pc' = [pc EXCEPT ![p] = "create_generate"]
            /\ UNCHANGED ret
    /\ UNCHANGED <<world, op, fault, pre, created, listed, opCount>>

\* lines 45-46: dockerfile_path.write_text replaces what is at the path
ConcurrentCreateGenerate(p) ==
    /\ pc[p] = "create_generate"
    /\ LET d == GenerateDockerfile(op[p].lang, op[p].version, op[p].arg)
           path == DockerfilePath(op[p].lang, op[p].name)
       IN /\ manifests' = [q \in DOMAIN manifests \cup {path} |->
                             IF q = path THEN d.content ELSE manifests[q]]
          /\ pc' = [pc EXCEPT ![p] = "create_build"]
    /\ UNCHANGED <<archives, images, containers, op, ret, fault, calls, pre,
                   created, listed, opCount>>

\* lines 50-55: images.build(path=".", dockerfile=str(dockerfile_path), tag)
\* reads the file that is at the path when it is called; without the file,
\* or on its own failure, the engine's error is caught at line 65
ConcurrentCreateBuild(p) ==
    /\ pc[p] = "create_build"
    /\ calls' = [calls EXCEPT ![p] = Append(@, "images.build")]
    /\ LET path == DockerfilePath(op[p].lang, op[p].name)
       IN \/ /\ path \in DOMAIN manifests
             /\ op' = [op EXCEPT ![p].consumed = manifests[path]]
             /\ images' = images \cup {op[p].image}
             /\ pc' = [pc EXCEPT ![p] = "save_get"]
             /\ UNCHANGED <<ret, fault>>
          \/ /\ op' = [op EXCEPT ![p].consumed =
                         IF path \in DOMAIN manifests THEN manifests[path]
                                                      ELSE NoManifest]
             /\ fault' = [fault EXCEPT ![p] = "engine"]
             /\ ret' = [ret EXCEPT ![p] = "False"]
             /\ pc' = [pc EXCEPT ![p] = "create_finally"]
             /\ UNCHANGED images
    /\ UNCHANGED <<archives, containers, manifests, pre, created, listed,
                   opCount>>

\* _save_image line 36: look the built image up
ConcurrentSaveImageGet(p) ==
    /\ pc[p] = "save_get"
    /\ calls' = [calls EXCEPT ![p] = Append(@, "images.get")]
    /\ \/ /\ op[p].image \in images
          /\ pc' = [pc EXCEPT ![p] = "save_open"]
          /\ UNCHANGED <<op, ret, fault>>
       \/ /\ fault' = [fault EXCEPT ![p] = "engine"]
          /\ op' = [op EXCEPT ![p].persist = "failed"]
          /\ ret' = [ret EXCEPT ![p] = "False"]
          /\ pc' = [pc EXCEPT ![p] = "create_finally"]
    /\ UNCHANGED <<world, pre, created, listed, opCount>>

\* _save_image line 37: open(image_path, 'wb') creates or truncates
ConcurrentSaveImageOpen(p) ==
    /\ pc[p] = "save_open"
    /\ LET path == GetImagePath(op[p].lang, op[p].name, op[p].version)
           by == IF path \in DOMAIN archives THEN archives[path].by ELSE {}
       IN \/ /\ archives' = [s \in DOMAIN archives \cup {path} |->
                               IF s = path
                               THEN [image |-> op[p].image, complete |-> FALSE,
                                     by |-> by \cup {p}]
                               ELSE archives[s]]
             /\ pc' = [pc EXCEPT ![p] = "save_write"]
             /\ UNCHANGED <<op, ret, fault>>
          \/ /\ fault' = [fault EXCEPT ![p] = "io"]
             /\ op' = [op EXCEPT ![p].persist = "failed"]
             /\ ret' = [ret EXCEPT ![p] = "OSError"]
             /\ pc' = [pc EXCEPT ![p] = "create_finally"]
             /\ UNCHANGED archives
    /\ UNCHANGED <<images, containers, manifests, calls, pre, created, listed,
                   opCount>>

\* _save_image lines 38-44: the chunks of the export are written; what a
\* file holds that two processes wrote at once is either outcome
ConcurrentSaveImageWrite(p) ==
    /\ pc[p] = "save_write"
    /\ calls' = [calls EXCEPT ![p] = Append(@, "image.save")]
    /\ LET path == GetImagePath(op[p].lang, op[p].name, op[p].version)
       IN \/ /\ \E whole \in BOOLEAN :
                   /\ ~whole => Cardinality(archives[path].by) > 1
                   /\ archives' = [archives EXCEPT ![path].complete = whole]
             /\ op' = [op EXCEPT ![p].persist = "ok"]
             /\ ret' = [ret EXCEPT ![p] = "True"]
             /\ UNCHANGED fault
          \/ /\ fault' = [fault EXCEPT ![p] = "engine"]
             /\ op' = [op EXCEPT ![p].persist = "failed"]
             /\ ret' = [ret EXCEPT ![p] = "False"]
             /\ UNCHANGED archives
    /\ pc' = [pc EXCEPT ![p] = "create_finally"]
    /\ UNCHANGED <<images, containers, manifests, pre, created, listed, opCount>>

\* lines 68-69: finally: dockerfile_path.unlink(missing_ok=True)
ConcurrentCreateFinally(p) ==
    /\ pc[p] = "create_finally"
    /\ manifests' = [q \in DOMAIN manifests \
                             {DockerfilePath(op[p].lang, op[p].name)}
                       |-> manifests[q]]
    /\ pc' = [pc EXCEPT ![p] = "done"]
    /\ UNCHANGED <<archives, images, containers, op, ret, fault, calls, pre,
                   created, listed, opCount>>

NextConcurrent ==
    \E p \in Procs :
       \/ ConcurrentCreateCheck(p)
       \/ ConcurrentCreateGenerate(p)
       \/ ConcurrentCreateBuild(p)
       \/ ConcurrentSaveImageGet(p)
       \/ ConcurrentSaveImageOpen(p)
       \/ ConcurrentSaveImageWrite(p)
       \/ ConcurrentCreateFinally(p)

SpecConcurrent == InitConcurrent /\ [][NextConcurrent]_vars

(***************************************************************************)
(* Properties.                                                             *)
(***************************************************************************)
Done(cmd) == pc = "done" /\ op.cmd = cmd

ValidCreate == op.cmd = "create" /\ op.name # NoName /\ op.version # NoVersion

\* the archives whose parsed identity has exactly this language and name
ArchivesOf(dir, lang, name) ==
    {s \in DOMAIN dir : Len(s) >= 3 /\ ParseLang(s) = lang /\ ParseName(s) = name}

\* C1: when create(I) is called after a successful create(I) with no
\* delete(I) in between (here: while the archive of I is still on disk), it
\* does not succeed, issues no build and leaves the archive directory as it
\* was, the one archive of I included.
C1_SecondCreateConflicts ==
    LET path == GetImagePath(op.lang, op.name, op.version)
    IN (Done("create") /\ ValidCreate
          /\ Identity(op.lang, op.name, op.version) \in pre.created
          /\ path \in DOMAIN pre.archives)
       => /\ ret # "True"
          /\ "images.build" \notin Range(calls)
          /\ archives = pre.archives

\* C2: in every reachable state the archive directory holds at most one
\* archive per (language, name) pair.
C2_OneArchivePerName ==
    \A s \in DOMAIN archives, t \in DOMAIN archives :
        (ParseLang(s) = ParseLang(t) /\ ParseName(s) = ParseName(t)) => s = t

\* C3: after an activate that reached the attached session has returned
\* (normal exit or interrupt), the image cache holds no image for the
\* activated identity.
C3_ActivateLeavesNoImage ==
    (Done("activate") /\ "docker exec" \in Range(calls)) => op.image \notin images

\* C4: no container outlives the operation that created it; in particular,
\* once activate has returned, the keep-alive container it started is gone
\* from the engine.
C4_NoContainerOutlives ==
    Done("activate") => containers \subseteq pre.containers

\* C5: when create returns, the image cache contains no image that this
\* create call built.
C5_CreateDiscardsImage ==
    Done("create") => ~(op.image \in images /\ op.image \notin pre.images)

\* C6: on every exit path of create the manifest file {lang}-{name}.Dockerfile
\* does not exist when create returns or raises.
C6_ManifestRemoved ==
    Done("create") => DockerfilePath(op.lang, op.name) \notin DOMAIN manifests

\* a create that wrote the manifest, built the image and then raised out of
\* the persist step
C6_Witness ==
    /\ Done("create")
    /\ "images.build" \in Range(calls)
    /\ ret = "OSError"
    /\ DockerfilePath(op.lang, op.name) \notin DOMAIN manifests

\* C7: a successful create(I) followed by delete(I.name, I.language) leaves
\* no archive file for I (here: the unlink itself does not fail, and no
\* archive of another name matches the pattern of the delete).
C7_CreateDeleteRoundTrip ==
    (Done("delete") /\ fault # "io"
       /\ pre.last # NoIdentity
       /\ pre.last.lang = op.lang /\ pre.last.name = op.name
       /\ Glob(pre.archives, op.lang, op.name)
            = ArchivesOf(pre.archives, op.lang, op.name))
    => GetImagePath(pre.last.lang, pre.last.name, pre.last.version)
         \notin DOMAIN archives

\* C8: activate(name, language) called when no archive exists for
\* (language, name) returns failure and issues no engine call; the image
\* cache and the container set are as before.
C8_ActivateNotFound ==
    (Done("activate") /\ op.name # NoName /\ op.lang \in Langs
       /\ ArchivesOf(pre.archives, op.lang, op.name) = {})
    => /\ ret = "False"
       /\ calls = <<>>
       /\ images = pre.images
       /\ containers = pre.containers

\* C9: a create whose dependency-file path does not exist issues no engine
\* build call, never writes the manifest file, leaves the archive directory
\* and the image cache unchanged, and fails.
C9_MissingDependencyFile ==
    (ValidCreate /\ op.arg # NoReq /\ ~PathExists(op.arg))
    => /\ "images.build" \notin Range(calls)
       /\ DockerfilePath(op.lang, op.name) \notin DOMAIN manifests
       /\ archives = pre.archives
       /\ images = pre.images
       /\ (pc = "done" => ret \in {"False", "FileNotFoundError"})

\* a create that got past the conflict guard and failed on the missing file
C9_Witness ==
    /\ Done("create") /\ ValidCreate
    /\ op.arg # NoReq /\ ~PathExists(op.arg)
    /\ ret = "FileNotFoundError"

\* C10: if persisting the built image fails, no file exists at the archive
\* path afterwards unless a complete archive was there before the call: no
\* truncated or partially written archive is left on disk.
C10_NoPartialArchive ==
    (Done("create") /\ op.persist = "failed")
    => LET path == GetImagePath(op.lang, op.name, op.version)
       IN path \in DOMAIN archives
            => /\ archives[path].complete
               /\ path \in DOMAIN pre.archives
               /\ pre.archives[path].complete

\* C11: delete(name, language) reports success whenever the archive of that
\* very identity existed and was removed, also when the engine's image cache
\* holds no image for the identity (removing the cached image is best
\* effort).
C11_DeleteBestEffort ==
    (/\ Done("delete")
     /\ op.file # <<>>
     /\ ParseName(op.file) = op.name
     /\ op.file \in DOMAIN pre.archives
     /\ op.file \notin DOMAIN archives
     /\ fault = "none")
    => ret = "True"

\* C12: delete(name, language) with no archive of the identity
\* (language, name) on disk reports not-found (returns failure), issues no
\* engine call and leaves the archive directory and the image cache
\* unchanged.
C12_DeleteNotFound ==
    (/\ Done("delete")
     /\ op.name # NoName /\ op.lang \in Langs
     /\ ArchivesOf(pre.archives, op.lang, op.name) = {})
    => /\ ret = "False"
       /\ calls = <<>>
       /\ archives = pre.archives
       /\ images = pre.images

C14_ExitCodeReflectsOutcome ==
    pc = "done" => (ExitCode = 0 <=> ret = "True")

\* C15: create, activate and delete given no name, no version (create), no
\* language (activate, delete) or a language outside the registry raise the
\* validation error at once: no engine call is issued and the archive
\* directory, the image cache and the container set are as before.
MissingInput ==
    /\ op.cmd \in ManagedCommands
    /\ \/ op.name = NoName
       \/ op.cmd = "create" /\ op.version = NoVersion
       \/ op.cmd # "create" /\ op.lang = NoLang
       \/ op.lang \in UnsupportedLangs

C15_ValidationFirst ==
    MissingInput
    => /\ pc = "done"
       /\ ret = "ValueError"
       /\ calls = <<>>
       /\ archives = pre.archives
       /\ images = pre.images
       /\ containers = pre.containers
       /\ manifests = [p \in {} |-> <<>>]

\* activate without a name, with archives on disk that the glob of an empty
\* name would match
C15_Witness ==
    /\ Done("activate") /\ op.name = NoName /\ op.lang \in Langs
    /\ ret = "ValueError"
    /\ Glob(archives, op.lang, op.name) # {}

\* C16: an activation that finds the image missing from the cache and whose
\* restore from the archive fails, or finds no archive file to restore from,
\* fails: no container is started, no pull is attempted and the image cache
\* is as it was.
C16_RestoreFailureFails ==
    (op.cmd = "activate" /\ op.restore \in {"absent", "failed"})
    => /\ pc = "done"
       /\ ret = "False"
       /\ containers = pre.containers
       /\ images = pre.images
       /\ "containers.run" \notin Range(calls)
       /\ "images.pull" \notin Range(calls)

\* the archive is on disk, the image is not cached, images.load fails
C16_Witness ==
    /\ Done("activate")
    /\ op.restore = "failed"
    /\ op.image \notin pre.images
    /\ calls = <<"images.get", "images.load">>

\* The states of an activation, read off the position in
\* activate_environment: Requested once the arguments are accepted, Resolved
\* once the archive is chosen, Restored once the image is in the cache,
\* Running once the container is started (the shell probe belongs to it),
\* Attached once the interactive session has been entered; the finally block
\* runs on the way out of the state the method was in, and the method has
\* returned in Cleaned (after a session) or Failed (otherwise).
ActState ==
    CASE pc = "activate_resolve" -> "Requested"
      [] pc \in {"activate_cache", "activate_load"} -> "Resolved"
      [] pc = "activate_run" -> "Restored"
      [] pc \in {"activate_probe", "activate_attach"} -> "Running"
      [] pc = "activate_finally" ->
           IF "docker exec" \in Range(calls) THEN "Attached"
           ELSE IF "container.exec_run" \in Range(calls) THEN "Running"
           ELSE "Restored"
      [] pc = "done" ->
           IF "docker exec" \in Range(calls) THEN "Cleaned" ELSE "Failed"
      [] OTHER -> "none"

ActRank ==
    CASE ActState = "Requested" -> 1
      [] ActState = "Resolved" -> 2
      [] ActState = "Restored" -> 3
      [] ActState = "Running" -> 4
      [] ActState = "Attached" -> 5
      [] ActState = "Cleaned" -> 6
      [] OTHER -> 0

\* C17: an activation moves through Requested, Resolved, Restored, Running,
\* Attached, Cleaned one state at a time, never back and never past a state,
\* or leaves the order for Failed; once it is in Cleaned or Failed it issues
\* no engine call; and the session is entered only with the image in the
\* cache and a container of this activation running.
C17_ActivationOrder ==
    /\ [][(op.cmd = "activate" /\ opCount' = opCount)
            => \/ ActRank' = ActRank
               \/ ActRank' = ActRank + 1
               \/ ActState' = "Failed"]_vars
    /\ [][(op.cmd = "activate" /\ ActState \in {"Cleaned", "Failed"}
             /\ opCount' = opCount)
            => calls' = calls]_vars
    /\ [](pc = "activate_attach"
            => /\ op.image \in images
               /\ \E c \in containers \ pre.containers : c.image = op.image)

\* an activation that went the whole way and returned True
C17_Witness ==
    /\ Done("activate") /\ ActState = "Cleaned" /\ ret = "True"
    /\ calls = <<"images.get", "images.load", "containers.run",
                 "container.exec_run", "docker exec", "images.remove">>

\* C18: an interrupt received during the interactive session does not
\* escape activate: the method returns a value, and the cleanup step (the
\* removal of the image from the cache) is issued once, right after the
\* session, as it is after a normal exit.
C18_InterruptIsNormalExit ==
    (Done("activate") /\ "docker exec" \in Range(calls))
    => /\ ret \in {"True", "False"}
       /\ fault = "interrupt" => ret = "False"
       /\ Len(calls) >= 2
       /\ calls[Len(calls) - 1] = "docker exec"
       /\ calls[Len(calls)] = "images.remove"
       /\ Cardinality({i \in DOMAIN calls : calls[i] = "images.remove"}) = 1

\* a session ended by an interrupt, the method has returned
C18_Witness ==
    /\ Done("activate")
    /\ fault = "interrupt"
    /\ ret = "False"
    /\ calls[Len(calls)] = "images.remove"

\* C19: run_code and build_source for an identity that has no archive report
\* not-found without trying to run a container, and the outcome differs from
\* the one reported for an engine failure.
C19_RunNotFound ==
    (/\ pc = "done" /\ op.cmd \in {"run", "build"}
     /\ GetImagePath(op.lang, op.name, op.version) \notin DOMAIN pre.archives
     /\ ~(op.cmd = "build" /\ op.lang = "python" /\ op.arg \notin ExistingDirs))
    => /\ "containers.run" \notin Range(calls)
       /\ ret \notin {"True", "False"}

\* the manifest _generate_dockerfile returned, and the head of its i-th line
Generated == manifests[DockerfilePath(op.lang, op.name)]
LineHead(i) == Generated[i][1]
Supplied == op.arg # NoReq /\ PathExists(op.arg)

\* the list starts with the base-image line of the runtime and version and
\* the working-directory line, and goes on with a bootstrap step
StartsWithBase ==
    /\ Len(Generated) >= 3
    /\ Generated[1][1] = "FROM"
    /\ Generated[1][2] = op.lang
    /\ Generated[1][3] = op.version
    /\ Generated[2] = <<"WORKDIR", container_dir>>
    /\ LineHead(3) = "RUN"

\* C20 as stated: the manifest starts with the base-image line, the
\* working-directory line and the bootstrap step(s), and its last two lines
\* are a copy step and the install step if and only if a dependency file was
\* supplied and exists; a supplied file that does not exist makes the
\* generation fail with no manifest.
C20_EndsWithCopyInstall ==
    (op.cmd = "generate" /\ pc = "done")
    => IF op.arg # NoReq /\ ~PathExists(op.arg)
       THEN ret = "FileNotFoundError" /\ DOMAIN manifests = {}
       ELSE /\ ret = "True"
            /\ StartsWithBase
            /\ (/\ LineHead(Len(Generated) - 1) = "COPY"
                /\ LineHead(Len(Generated)) = "RUN") <=> Supplied

\* the line of the copy step, 0 if there is none
CopyAt ==
    IF \E i \in DOMAIN Generated : LineHead(i) = "COPY"
    THEN CHOOSE i \in DOMAIN Generated : LineHead(i) = "COPY"
    ELSE 0

\* C20, amended: after the base-image line, the working-directory line and
\* the bootstrap step(s) comes nothing else when no dependency file was
\* supplied; when one was supplied and exists, one copy step comes next,
\* then the install step, which ends the list except for Node, where a
\* PATH setting follows it; a supplied file that does not exist makes the
\* generation fail with no manifest.
C20_CopyInstallAfterBootstrap ==
    (op.cmd = "generate" /\ pc = "done")
    => IF op.arg # NoReq /\ ~PathExists(op.arg)
       THEN ret = "FileNotFoundError" /\ DOMAIN manifests = {}
       ELSE /\ ret = "True"
            /\ StartsWithBase
            /\ (CopyAt # 0) <=> Supplied
            /\ Cardinality({i \in DOMAIN Generated : LineHead(i) = "COPY"}) <= 1
            /\ \A i \in 3 .. Len(Generated) :
                  (CopyAt = 0 \/ i < CopyAt) => LineHead(i) = "RUN"
            /\ CopyAt # 0
                 => /\ CopyAt > 3
                    /\ CopyAt < Len(Generated)
                    /\ LineHead(CopyAt + 1) = "RUN"
                    /\ IF op.lang = "node"
                       THEN /\ Len(Generated) = CopyAt + 2
                            /\ LineHead(CopyAt + 2) = "ENV"
                       ELSE Len(Generated) = CopyAt + 1

\* the Node manifest for a dependency file that exists: its last line is
\* the PATH setting
C20_Witness ==
    /\ op.cmd = "generate" /\ pc = "done"
    /\ op.lang = "node" /\ Supplied
    /\ ret = "True"
    /\ LineHead(Len(Generated)) = "ENV"

\* C21: the file name of every identity, names with hyphens included, parses
\* back (first part, last part, the parts between) into the same language,
\* name and version, and two distinct identities never have the same file
\* name.
C21_FileNameRoundTrip ==
    (pc = "done" /\ op.cmd = "list" /\ op.arg = <<NoLang>>)
    => /\ \A i \in created :
             \E l \in listed :
                /\ l.file = ArchiveStem(i.lang, i.name, i.version)
                /\ l.lang = i.lang
                /\ l.name = i.name
                /\ <<l.version>> = i.version
       /\ \A i, j \in created :
             ArchiveStem(i.lang, i.name, i.version)
               = ArchiveStem(j.lang, j.name, j.version) => i = j

\* C22: build_source returns success only if the build command exited with
\* status zero, and for Python only if, in addition, the built executable
\* is under the output directory the caller asked for.
C22_BuildSuccess ==
    (Done("build") /\ ret = "True")
    => /\ fault # "exit"
       /\ op.lang = "python" => op.built = op.output_dir \o <<"main">>

\* C23: activate(name, language) resolves only an archive whose identity has
\* exactly that language and name; when the only archives on disk belong to
\* other names that share a prefix with the requested one, it reports
\* not-found and starts nothing.
C23_ActivateExactName ==
    (op.cmd = "activate" /\ op.lang \in Langs /\ op.name # NoName)
    => /\ op.file # <<>>
            => ParseLang(op.file) = op.lang /\ ParseName(op.file) = op.name
       /\ (pc = "done" /\ ArchivesOf(pre.archives, op.lang, op.name) = {})
            => /\ ret = "False"
               /\ op.file = <<>>
               /\ "containers.run" \notin Range(calls)
               /\ containers = pre.containers

\* C24: delete(name, language) removes at most the archive of the identity
\* with exactly that language and name; every other archive of the
\* directory, an archive of a name that starts with the requested name and
\* a hyphen included, is still there and unchanged.
C24_DeleteExactName ==
    (op.cmd = "delete" /\ op.lang \in Langs /\ op.name # NoName)
    => \A s \in DOMAIN pre.archives :
          (ParseLang(s) # op.lang \/ ParseName(s) # op.name)
            => s \in DOMAIN archives /\ archives[s] = pre.archives[s]

\* position of the first occurrence of a call in the sequence of engine
\* calls of the running command, 0 when it was not issued
FirstCall(c) ==
    IF c \in Range(calls)
    THEN CHOOSE k \in DOMAIN calls :
           calls[k] = c /\ \A j \in 1..(k - 1) : calls[j] # c
    ELSE 0

CountCalls(c) == Cardinality({k \in DOMAIN calls : calls[k] = c})

\* C25: during an activation the image cache is looked up before anything
\* else is asked of the engine; when the image was in the cache the restore
\* is not called and the archive is not imported; when it was not, the
\* restore is called exactly once, and the container is started only after
\* the restore returned an image.
C25_CacheBeforeRestore ==
    (op.cmd = "activate" /\ op.file # <<>>)
    => /\ calls # <<>> => calls[1] = "images.get"
       /\ CountCalls("images.load") <= 1
       /\ op.image \in pre.images
            => op.restore = "none" /\ "images.load" \notin Range(calls)
       /\ (op.image \notin pre.images
           /\ pc \in {"activate_run", "activate_probe", "activate_attach",
                      "activate_finally", "done"})
            => /\ op.restore # "none"
               /\ "containers.run" \in Range(calls)
                    => /\ op.restore = "ok"
                       /\ 0 < FirstCall("images.load")
                       /\ FirstCall("images.load") < FirstCall("containers.run")

\* an activation that missed the cache, restored the image and started the
\* container, and one that hit the cache
C25_Witness ==
    /\ Done("activate")
    /\ op.image \notin pre.images
    /\ op.restore = "ok"
    /\ calls[1] = "images.get" /\ calls[2] = "images.load"
    /\ calls[3] = "containers.run"
    /\ ret = "True"

\* C26: a create that the conflict guard rejects (the image of the identity
\* is in the engine's cache) changes nothing: at every step of the call and
\* after it the archive directory, file set and contents, and the image
\* cache are what they were before, no build is asked of the engine, and
\* the call returns failure.
C26_ConflictMutatesNothing ==
    (op.cmd = "create" /\ op.name # NoName /\ op.version # NoVersion
     /\ op.image \in pre.images)
    => /\ archives = pre.archives
       /\ images = pre.images
       /\ "images.build" \notin Range(calls)
       /\ pc = "done" => ret = "False"

\* a create of an identity whose image is cached and whose archive is on
\* disk has returned
C26_Witness ==
    /\ Done("create")
    /\ op.image \in pre.images
    /\ GetImagePath(op.lang, op.name, op.version) \in DOMAIN pre.archives
    /\ calls = <<"images.get">>
    /\ ret = "False"

\* the build of the running create was asked of the engine and failed
BuildFailed ==
    /\ op.cmd = "create"
    /\ calls = <<"images.get", "images.build">>
    /\ fault = "engine"

\* C27: when the engine's build fails, create returns failure, the archive
\* directory is what it was before the call (no archive of the identity is
\* created or modified), the image of the identity is not in the cache, and
\* once the call has returned the manifest file is gone.
C27_BuildFailureCleansUp ==
    BuildFailed
    => /\ ret = "False"
       /\ archives = pre.archives
       /\ images = pre.images
       /\ op.image \notin images
       /\ pc = "done"
            => DockerfilePath(op.lang, op.name) \notin DOMAIN manifests

\* a create whose build failed has returned, with an archive of another
\* identity on disk
C27_Witness ==
    /\ BuildFailed
    /\ pc = "done"
    /\ ret = "False"
    /\ pre.archives # << >>
    /\ manifests = << >>

\* the running activation restored the image from the archive and then
\* failed at containers.run or at the shell probe
FailedAfterRestore ==
    /\ op.cmd = "activate"
    /\ op.restore = "ok"
    /\ fault = "engine"
    /\ "containers.run" \in Range(calls)
    /\ "docker exec" \notin Range(calls)

\* C28: an activation that fails after the image was restored into the
\* cache, because the container did not start or because the shell probe
\* raised an engine error, has removed the restored image from the cache
\* when it returns failure.
C28_FailedActivationRemovesImage ==
    (FailedAfterRestore /\ pc = "done")
    => ret = "False" /\ op.image \notin images

\* the running activation missed the cache and _load_image has returned
Restored ==
    /\ op.cmd = "activate"
    /\ op.file # <<>>
    /\ op.image \notin pre.images
    /\ pc \in {"activate_run", "activate_probe", "activate_attach",
               "activate_finally", "done"}

\* C29: the restore of an identity whose archive file is missing returns
\* absent: nothing is raised (the activation returns failure) and no engine
\* call is made by the restore; it returns an image only when the archive
\* file was there, whole, and the engine's import was called and succeeded.
C29_RestoreAbsentOrImported ==
    Restored
    => LET path == GetImagePath(op.lang, op.name, op.version)
       IN /\ path \notin DOMAIN pre.archives
               => /\ op.restore = "absent"
                  /\ calls = <<"images.get">>
                  /\ pc = "done" /\ ret = "False"
                  /\ images = pre.images
          /\ op.restore = "ok"
               => /\ path \in DOMAIN pre.archives
                  /\ pre.archives[path].complete
                  /\ CountCalls("images.load") = 1
                  /\ pc = "activate_run" => pre.archives[path].image \in images
          /\ op.restore \in {"absent", "failed"} => pc = "done"

\* an activation resolved an archive of another name, looked for the
\* archive of the requested identity and did not find it
C29_Witness ==
    /\ Restored
    /\ GetImagePath(op.lang, op.name, op.version) \notin DOMAIN pre.archives
    /\ pre.archives # << >>
    /\ op.restore = "absent"
    /\ ret = "False"

\* C30: list_environments returns normally whatever files are in the
\* directory: a file whose stem has fewer than three hyphen-delimited parts
\* gives no entry, every file with three parts or more gives its entry
\* (first part, parts between, last part), and with a language filter the
\* entries are those of the files, among these, whose first part is the
\* filter.
C30_ListSkipsMalformed ==
    (pc = "done" /\ op.cmd = "list")
    => /\ ret = "True"
       /\ \A e \in listed :
             /\ e.lang = ParseLang(e.file)
             /\ e.name = ParseName(e.file)
             /\ e.version = ParseVersion(e.file)
       /\ {e.file : e \in listed}
            = {s \in DOMAIN archives :
                 /\ Len(s) >= 3
                 /\ (op.arg = <<NoLang>> \/ <<s[1]>> = op.arg)}

\* a filtered list of a directory that holds a file with too few parts, an
\* archive of the filter's language and an archive of another language
C30_Witness ==
    /\ Done("list")
    /\ op.arg # <<NoLang>>
    /\ \E s \in DOMAIN archives : Len(s) < 3
    /\ \E s \in DOMAIN archives : Len(s) >= 3 /\ <<s[1]>> # op.arg
    /\ listed # {}

\* C31: during an activation the shell is chosen by one probe in the running
\* container: the probe is made at most once, the attach at most once and
\* only after the probe, and the shell attached to is /bin/bash exactly when
\* the probe exited with status zero and /bin/sh otherwise.
C31_ShellByProbe ==
    op.cmd = "activate"
    => /\ CountCalls("container.exec_run") <= 1
       /\ CountCalls("docker exec") <= 1
       /\ "container.exec_run" \in Range(calls)
            => /\ "containers.run" \in Range(calls)
               /\ FirstCall("containers.run") < FirstCall("container.exec_run")
       /\ IF "docker exec" \in Range(calls)
          THEN /\ 0 < FirstCall("container.exec_run")
               /\ FirstCall("container.exec_run") < FirstCall("docker exec")
               /\ op.probe # NoExitCode
               /\ op.attached = "/bin/bash" <=> op.probe = 0
               /\ op.attached = "/bin/sh" <=> op.probe # 0
          ELSE op.attached = "none"

\* an activation attached to /bin/sh after a probe that exited with 1
C31_Witness ==
    /\ Done("activate")
    /\ op.probe = 1
    /\ op.attached = "/bin/sh"
    /\ ret = "True"

\* C32: activate, run_code, build_source and list_environments leave the
\* archive directory as it was when the operation began, at every step and
\* on every way out: no archive file is created, modified or deleted by
\* them; only create and delete change the directory.
C32_ArchivesFrame ==
    op.cmd \in {"activate", "run", "build", "list"}
    => archives = pre.archives

\* an activation ran to its cleanup and returned with archives on disk
C32_Witness ==
    /\ Done("activate")
    /\ "images.remove" \in Range(calls)
    /\ op.file \in DOMAIN archives
    /\ archives = pre.archives

\* the calls the operations make to the engine
EngineCalls ==
    {"images.get", "images.build", "image.save", "images.load",
     "containers.run", "container.exec_run", "images.remove"}

\* the images.remove of the running activation's cleanup was issued and the
\* image is still in the cache: the engine refused or failed
CleanupFailed ==
    /\ op.cmd = "activate"
    /\ "images.remove" \in Range(calls)
    /\ op.image \in images

\* C33: no engine call is retried: within one activation each engine
\* operation (lookup, import, container run, probe, remove) is issued at
\* most once, and an activation in which an engine call failed returns a
\* failure result.
C33_NoRetryFailureSurfaced ==
    op.cmd = "activate"
    => /\ \A c \in EngineCalls : CountCalls(c) <= 1
       /\ (pc = "done" /\ (fault = "engine" \/ CleanupFailed)) => ret = "False"

\* the two processes create the same identity
SameIdentity == op[1].version = op[2].version

\* C34: when two creates of the same identity run in two processes with
\* their steps interleaved, at most one of them reports success, and the
\* archive of the identity is opened for writing by one of them only.
C34_OneCreateWins ==
    SameIdentity
    => /\ ~(ret[1] = "True" /\ ret[2] = "True")
       /\ \A s \in DOMAIN archives : Cardinality(archives[s].by) <= 1

\* the manifest the create of process p generated
OwnManifest(p) ==
    GenerateDockerfile(op[p].lang, op[p].version, op[p].arg).content

\* C35: when two creates of the same language and name and of different
\* versions interleave in one working directory, the build of each is given
\* the manifest its own call generated: not the manifest of the other call,
\* and not a path the other call's cleanup has already unlinked.
C35_BuildConsumesOwnManifest ==
    ~SameIdentity
    => \A p \in Procs : op[p].consumed \in {<<>>, OwnManifest(p)}

\* an activation that passed the argument tests is running
Activating ==
    op.cmd = "activate" /\ pc \notin {"idle", "done"}

\* C36: every activation reaches a terminal state and returns: once it is
\* running it comes to its end (Cleaned or Failed) with a result, True or
\* False; the cleanup is issued at most once, and whatever the engine
\* answers to it nothing is raised out of activate.
C36_ActivationTerminates ==
    /\ Activating ~> (Done("activate") /\ ActState \in {"Cleaned", "Failed"})
    /\ [](op.cmd = "activate" => CountCalls("images.remove") <= 1)
    /\ []((Done("activate") /\ "images.get" \in Range(calls))
            => ret \in {"True", "False"})

\* an activation whose cleanup was refused by the engine has returned
C36_Witness ==
    /\ Done("activate")
    /\ ActState = "Cleaned"
    /\ CleanupFailed
    /\ ret \in {"True", "False"}

====
